---- MODULE Spec2Model ----
(***************************************************************************)
(* Model of django_chat_app/server/views.py (ServerListViewSet.list) over  *)
(* a small Server / member store.                                          *)
(*                                                                         *)
(* Query-parameter strings are sequences of one-character strings, so that *)
(* int(), the f-string and the truthiness tests are computed, not assumed. *)
(* A QuerySet is a lazy description (where-lookups, annotation, limit)     *)
(* together with its _result_cache; it is evaluated against the store      *)
(* when the code iterates it or calls exists().                            *)
(***************************************************************************)
EXTENDS Integers, Sequences, FiniteSets, TLC

VARIABLES Server, Member, nextId, result_cache, request, response

vars == <<Server, Member, nextId, result_cache, request, response>>

\* ---------------------------------------------------------------- bounds
MaxServers == 2
MaxUsers == 2

Users == 1..MaxUsers
Ids == 1..MaxServers

\* ---------------------------------------------------------------- strings
\* Python None, as returned by query_params.get() for a missing key.
None == <<"None">>

Digits == <<"0", "1", "2", "3", "4", "5", "6", "7", "8", "9">>

IsDigit(c) == \E i \in 1..Len(Digits) : Digits[i] = c

DigitVal(c) == (CHOOSE i \in 1..Len(Digits) : Digits[i] = c) - 1

RECURSIVE ToStr(_)
\* str(n) for n >= 0
ToStr(n) == IF n < 10 THEN <<Digits[n + 1]>>
            ELSE ToStr(n \div 10) \o <<Digits[(n % 10) + 1]>>

RECURSIVE Strip(_)
\* str.strip() for blanks
Strip(s) == IF s = <<>> THEN s
            ELSE IF Head(s) = " " THEN Strip(Tail(s))
            ELSE IF s[Len(s)] = " " THEN Strip(SubSeq(s, 1, Len(s) - 1))
            ELSE s

RECURSIVE DigitsVal(_)
DigitsVal(s) == IF s = <<>> THEN 0
                ELSE 10 * DigitsVal(SubSeq(s, 1, Len(s) - 1)) + DigitVal(s[Len(s)])

AllDigits(s) == s # <<>> /\ \A i \in 1..Len(s) : IsDigit(s[i])

\* Python int(s) for a str: blanks stripped, an optional sign, decimal digits.
\* [ok |-> FALSE] stands for the ValueError int() raises.
ParseInt(s) ==
    LET t == Strip(s)
        signed == t # <<>> /\ Head(t) \in {"-", "+"}
        body == IF signed THEN Tail(t) ELSE t
    IN IF AllDigits(body)
       THEN [ok |-> TRUE,
             val |-> IF signed /\ Head(t) = "-" THEN 0 - DigitsVal(body)
                     ELSE DigitsVal(body)]
       ELSE [ok |-> FALSE]

\* Python truthiness of an Optional[str]
Truthy(v) == v # None /\ v # <<>>

Str_true == <<"t", "r", "u", "e">>

UpperCase == <<"A", "B", "C", "D", "E", "F", "G", "H", "I", "J", "K", "L", "M",
               "N", "O", "P", "Q", "R", "S", "T", "U", "V", "W", "X", "Y", "Z">>

LowerCase == <<"a", "b", "c", "d", "e", "f", "g", "h", "i", "j", "k", "l", "m",
               "n", "o", "p", "q", "r", "s", "t", "u", "v", "w", "x", "y", "z">>

LowerChar(c) ==
    IF \E i \in 1..Len(UpperCase) : UpperCase[i] = c
    THEN LowerCase[CHOOSE i \in 1..Len(UpperCase) : UpperCase[i] = c]
    ELSE c

\* str.lower()
Lower(s) == [i \in 1..Len(s) |-> LowerChar(s[i])]

\* ---------------------------------------------------------------- store
\* Category.name values held by the store (non-empty; two differ only in case)
Game == <<"g", "a", "m", "e">>
GameCap == <<"G", "a", "m", "e">>
CategoryNames == {Game, GameCap}

RECURSIVE Ordered(_)
\* the rows of a set of ids in the store's default order (ascending id)
Ordered(S) == IF S = {} THEN <<>>
              ELSE LET m == CHOOSE x \in S : \A y \in S : x <= y
                   IN <<m>> \o Ordered(S \ {m})

Take(seq, n) == SubSeq(seq, 1, IF n < Len(seq) THEN n ELSE Len(seq))

\* ---------------------------------------------------------------- QuerySet
NoCache == [fetched |-> FALSE, rows |-> <<>>]

Raise(exc) == [kind |-> "raise", exc |-> exc]

\* Server.objects.all(): the class attribute ServerListViewSet.queryset.
\* One object for the life of the process; result_cache is its _result_cache.
Manager_all ==
    [kind |-> "QuerySet", where |-> <<>>, annotated |-> FALSE,
     count_where |-> <<>>, sliced |-> FALSE, high_mark |-> 0,
     is_class_attr |-> TRUE, result_cache |-> NoCache]

queryset == [Manager_all EXCEPT !.result_cache = result_cache]

\* QuerySet._chain(): a new object without the cached rows
Clone(q) == [q EXCEPT !.is_class_attr = FALSE, !.result_cache = NoCache]

\* QuerySet.filter(lookup=value). Called on a list it is an AttributeError,
\* on a sliced query a TypeError, with a value the id field cannot convert a
\* ValueError.
Filter(q, lookup, value) ==
    IF q.kind = "list" THEN Raise("AttributeError")
    ELSE IF q.sliced THEN Raise("TypeError")
    ELSE IF lookup = "id" /\ ~ParseInt(value).ok THEN Raise("ValueError")
    ELSE [Clone(q) EXCEPT !.where =
            Append(q.where,
                   [lookup |-> lookup,
                    value |-> IF lookup = "id" THEN ParseInt(value).val ELSE value])]

IsMemberLookup(l) == l.lookup = "member"

\* QuerySet.annotate(num_members=Count("member")): the count is taken over
\* the member join as the query has it when annotate() is called, so a
\* preceding filter(member=...) constrains the edges that are counted.
Annotate(q) ==
    [Clone(q) EXCEPT !.annotated = TRUE,
                     !.count_where = SelectSeq(q.where, IsMemberLookup)]

\* QuerySet.__getitem__(slice(None, n))
Slice(q, n) ==
    IF n < 0 THEN Raise("ValueError")
    ELSE IF q.result_cache.fetched
         THEN [kind |-> "list", rows |-> Take(q.result_cache.rows, n)]
    ELSE [Clone(q) EXCEPT !.sliced = TRUE, !.high_mark = n]

Matches(id, l) ==
    CASE l.lookup = "category__name" -> Server[id].category = l.value
      [] l.lookup = "member" -> <<id, l.value>> \in Member
      [] l.lookup = "id" -> id = l.value

Selected(q) ==
    {id \in DOMAIN Server : \A k \in 1..Len(q.where) : Matches(id, q.where[k])}

CountMember(id, q) ==
    Cardinality({u \in Users :
        /\ <<id, u>> \in Member
        /\ \A k \in 1..Len(q.count_where) : u = q.count_where[k].value})

Instance(id, q) ==
    IF q.annotated
    THEN [id |-> id, category |-> Server[id].category,
          num_members |-> CountMember(id, q)]
    ELSE [id |-> id, category |-> Server[id].category]

\* the SQL query of q run against the store now
Fetch(q) ==
    LET ids == Ordered(Selected(q))
        cut == IF q.sliced THEN Take(ids, q.high_mark) ELSE ids
    IN [i \in 1..Len(cut) |-> Instance(cut[i], q)]

\* iter(q): a list is itself; a QuerySet answers from _result_cache when it
\* has been fetched, and otherwise fetches
Iterate(q) ==
    IF q.kind = "list" THEN q.rows
    ELSE IF q.result_cache.fetched THEN q.result_cache.rows
    ELSE Fetch(q)

\* QuerySet.exists()
Exists(q) == Iterate(q) # <<>>

\* ServerSerializer(queryset, many=True, context={"num_members": flag}).data
Serialize(q, flag) ==
    LET rows == Iterate(q)
    IN [i \in 1..Len(rows) |->
          IF flag
          THEN [id |-> rows[i].id, category |-> rows[i].category,
                num_members |-> rows[i].num_members]
          ELSE [id |-> rows[i].id, category |-> rows[i].category]]

\* ---------------------------------------------------------------- outcomes
AuthenticationFailed == [kind |-> "AuthenticationFailed"]

ValidationError(detail) == [kind |-> "ValidationError", detail |-> detail]

\* an exception list() lets escape
Unhandled(exc) == [kind |-> "Unhandled", exc |-> exc]

Response(data) == [kind |-> "Response", data |-> data]

\* f"Server with id {by_serverid} does not exist!"
NotFoundDetail(by_serverid) ==
    <<"Server with id ">> \o by_serverid \o <<" does not exist!">>

ValueErrorDetail == <<"Server value error!">>

\* ---------------------------------------------------------------- list()
AnonymousUser == [is_authenticated |-> FALSE]

User(u) == [is_authenticated |-> TRUE, id |-> u]

\* variant: the precheck looks at by_user only
AuthenticationRequired_ByUserOnly(by_user, by_serverid, user) ==
    by_user /\ ~user.is_authenticated

\* if (by_user or by_serverid) and not request.user.is_authenticated
AuthenticationRequired(by_user, by_serverid, user) ==
    (by_user \/ Truthy(by_serverid)) /\ ~user.is_authenticated

\* variant: the category is lower-cased before it is matched
FilterCategory_Lowered(q, category) ==
    IF Truthy(category) THEN Filter(q, "category__name", Lower(category)) ELSE q

\* if category: self.queryset = self.queryset.filter(category__name=category)
FilterCategory(q, category) ==
    IF Truthy(category) THEN Filter(q, "category__name", category) ELSE q

\* if by_user: self.queryset = self.queryset.filter(member=request.user.id)
FilterByUser(q, by_user, user) ==
    IF by_user THEN Filter(q, "member", user.id) ELSE q

\* if with_num_members: self.queryset = self.queryset.annotate(...)
AnnotateNumMembers(q, with_num_members) ==
    IF with_num_members THEN Annotate(q) ELSE q

\* variant: a qty that int() rejects is ignored
LimitQty_Lenient(q, qty) ==
    IF ~Truthy(qty) \/ ~ParseInt(qty).ok THEN q
    ELSE Slice(q, ParseInt(qty).val)

\* if qty: self.queryset = self.queryset[: int(qty)]
\* int() and the slice are outside any try: what they raise escapes list().
LimitQty(q, qty) ==
    IF ~Truthy(qty) THEN q
    ELSE IF ~ParseInt(qty).ok THEN Raise("ValueError")
    ELSE Slice(q, ParseInt(qty).val)

\* the body of the try block
TryFilterServerId(q, by_serverid) ==
    LET f == Filter(q, "id", by_serverid)
    IN IF f.kind = "raise" THEN f
       ELSE IF ~Exists(f)
            THEN [kind |-> "raise", exc |-> "ValidationError",
                  detail |-> NotFoundDetail(by_serverid)]
       ELSE f

\* if by_serverid: try: ... except: raise ValidationError("Server value error!")
\* The bare except also catches the ValidationError raised in the try block.
FilterServerId(q, by_serverid) ==
    IF ~Truthy(by_serverid) THEN q
    ELSE LET t == TryFilterServerId(q, by_serverid)
         IN IF t.kind = "raise"
            THEN [kind |-> "raise", exc |-> "ValidationError",
                  detail |-> ValueErrorDetail]
            ELSE t

\* ServerListViewSet.list(self, request): the outcome, and the object
\* self.queryset is bound to when list() ends.
list(req) ==
    LET category == req.query_params.category
        by_user == req.query_params.by_user = Str_true
        by_serverid == req.query_params.by_serverid
        qty == req.query_params.qty
        with_num_members == req.query_params.with_num_members = Str_true
        q1 == FilterCategory(queryset, category)
        q2 == FilterByUser(q1, by_user, req.user)
        q3 == AnnotateNumMembers(q2, with_num_members)
        q4 == LimitQty(q3, qty)
        q5 == FilterServerId(q4, by_serverid)
    IN IF AuthenticationRequired(by_user, by_serverid, req.user)
       THEN [response |-> AuthenticationFailed, queryset |-> queryset]
       ELSE IF q4.kind = "raise"
       THEN [response |-> Unhandled(q4.exc), queryset |-> q3]
       ELSE IF q5.kind = "raise"
       THEN [response |-> ValidationError(q5.detail), queryset |-> q4]
       ELSE [response |-> Response(Serialize(q5, with_num_members)),
             queryset |-> q5]

\* ---------------------------------------------------------------- requests
Chat == <<"c", "h", "a", "t">>

CategoryValues == {None, <<>>, Chat} \cup CategoryNames

ByUserValues == {None, Str_true, <<"T", "r", "u", "e">>}

ByServerIdValues ==
    {None, <<>>, <<"x">>} \cup {ToStr(i) : i \in 1..(MaxServers + 1)}

QtyValues ==
    {None, <<>>, <<"x">>, <<"-", "1">>} \cup {ToStr(i) : i \in 0..(MaxServers + 1)}

WithNumMembersValues == {None, Str_true}

Callers == {AnonymousUser} \cup {User(u) : u \in Users}

QueryParams ==
    [category : CategoryValues, by_user : ByUserValues,
     by_serverid : ByServerIdValues, qty : QtyValues,
     with_num_members : WithNumMembersValues]

Requests == [kind : {"GET"}, user : Callers, query_params : QueryParams]

NoRequest == [kind |-> "None"]

NoResponse == [kind |-> "None"]

\* ---------------------------------------------------------------- actions
Init ==
    /\ Server = <<>>
    /\ Member = {}
    /\ nextId = 1
    /\ result_cache = NoCache
    /\ request = NoRequest
    /\ response = NoResponse

Idle == request = NoRequest

\* the store's writers: server creation and deletion, membership join and
\* leave. They are outside views.py; list() runs to completion between them.
CreateServer(c) ==
    /\ Idle
    /\ nextId <= MaxServers
    /\ Server' = [id \in DOMAIN Server \cup {nextId} |->
                    IF id = nextId THEN [category |-> c] ELSE Server[id]]
    /\ nextId' = nextId + 1
    /\ UNCHANGED <<Member, result_cache, request, response>>

DeleteServer(id) ==
    /\ Idle
    /\ id \in DOMAIN Server
    /\ Server' = [i \in DOMAIN Server \ {id} |-> Server[i]]
    /\ Member' = {e \in Member : e[1] # id}
    /\ UNCHANGED <<nextId, result_cache, request, response>>

Join(id, u) ==
    /\ Idle
    /\ id \in DOMAIN Server
    /\ <<id, u>> \notin Member
    /\ Member' = Member \cup {<<id, u>>}
    /\ UNCHANGED <<Server, nextId, result_cache, request, response>>

Leave(id, u) ==
    /\ Idle
    /\ <<id, u>> \in Member
    /\ Member' = Member \ {<<id, u>>}
    /\ UNCHANGED <<Server, nextId, result_cache, request, response>>

\* variant: the single-server step removes the row it found
ListRequest_Deleting(req) ==
    /\ Idle
    /\ LET out == list(req)
           found == out.response.kind = "Response"
                    /\ Truthy(req.query_params.by_serverid)
           gone == IF found THEN {out.response.data[1].id} ELSE {}
       IN /\ request' = req
          /\ response' = out.response
          /\ result_cache' = result_cache
          /\ Server' = [i \in DOMAIN Server \ gone |-> Server[i]]
          /\ Member' = {e \in Member : e[1] \notin gone}
    /\ UNCHANGED nextId

\* One GET handled by a fresh ServerListViewSet instance. Serializing the
\* class attribute itself (no step rebound self.queryset) fetches it once and
\* leaves the rows in its _result_cache.
ListRequest(req) ==
    /\ Idle
    /\ LET out == list(req)
       IN /\ request' = req
          /\ response' = out.response
          /\ result_cache' =
               IF /\ out.response.kind = "Response"
                  /\ out.queryset.kind = "QuerySet"
                  /\ out.queryset.is_class_attr
                  /\ ~result_cache.fetched
               THEN [fetched |-> TRUE, rows |-> Fetch(out.queryset)]
               ELSE result_cache
    /\ UNCHANGED <<Server, Member, nextId>>

\* a GET arrives while no request is being handled (requests are handled one
\* at a time, each to completion)
Dispatch == Idle /\ \E req \in Requests : ListRequest(req)

\* the response is sent and the view instance discarded
Finish ==
    /\ ~Idle
    /\ request' = NoRequest
    /\ response' = NoResponse
    /\ UNCHANGED <<Server, Member, nextId, result_cache>>

Next ==
    \/ \E c \in CategoryNames : CreateServer(c)
    \/ \E id \in Ids : DeleteServer(id)
    \/ \E id \in Ids, u \in Users : Join(id, u)
    \/ \E id \in Ids, u \in Users : Leave(id, u)
    \/ Dispatch
    \/ Finish

Spec == Init /\ [][Next]_vars

\* ---------------------------------------------------------------- claims
Handled == request # NoRequest

Ok == response.kind = "Response"

Authenticated == request.user.is_authenticated

P_category == request.query_params.category

P_by_user == request.query_params.by_user

P_by_serverid == request.query_params.by_serverid

P_qty == request.query_params.qty

P_with_num_members == request.query_params.with_num_members

IdsOf(data) == [i \in 1..Len(data) |-> data[i].id]

\* the member edges of a server in the store
MembersOf(id) == {u \in Users : <<id, u>> \in Member}

\* the servers the category and membership steps leave, stated on the store
WorkingSet ==
    {id \in DOMAIN Server :
        /\ Truthy(P_category) => Server[id].category = P_category
        /\ P_by_user = Str_true => <<id, request.user.id>> \in Member}

\* the request passes the authorization precheck
PassesPrecheck ==
    (P_by_user = Str_true \/ Truthy(P_by_serverid)) => Authenticated

\* C1: an authenticated request with by_serverid=<id>, no qty, and no server
\* <id> in the store fails with ValidationError "Server with id <id> does not
\* exist!".
C1_NotFoundDetail ==
    ( /\ Handled
      /\ Authenticated
      /\ Truthy(P_by_serverid)
      /\ ParseInt(P_by_serverid).ok
      /\ ParseInt(P_by_serverid).val \notin DOMAIN Server
      /\ P_qty = None )
    => response = ValidationError(NotFoundDetail(P_by_serverid))

\* C2 as stated: an anonymous request with by_user "true" or with by_serverid
\* supplied (present in the query string) fails with AuthenticationFailed.
C2_SuppliedServerId ==
    ( /\ Handled
      /\ ~Authenticated
      /\ (P_by_user = Str_true \/ P_by_serverid # None) )
    => response = AuthenticationFailed

\* C2 amended: an anonymous request with by_user "true" or with a non-empty
\* by_serverid fails with AuthenticationFailed, whatever category, qty and
\* with_num_members are.
C2_AnonymousScoped ==
    ( /\ Handled
      /\ ~Authenticated
      /\ (P_by_user = Str_true \/ (P_by_serverid # None /\ P_by_serverid # <<>>)) )
    => response = AuthenticationFailed

C2_Witness ==
    /\ Handled
    /\ ~Authenticated
    /\ P_by_user # Str_true
    /\ P_by_serverid = ToStr(MaxServers + 1)
    /\ P_qty = <<"x">>
    /\ P_category = Chat
    /\ response = AuthenticationFailed

\* C3: in a successful response to with_num_members=true every server's
\* num_members is the number of member edges that server has in the store.
C3_TrueCount ==
    (Handled /\ Ok /\ P_with_num_members = Str_true)
    => \A i \in 1..Len(response.data) :
          response.data[i].num_members
            = Cardinality(MembersOf(response.data[i].id))

ToggleNumMembers(req) ==
    [req EXCEPT !.query_params.with_num_members =
        IF @ = None THEN Str_true ELSE None]

\* C4: the request with with_num_members=true and the same request without
\* it have the same outcome kind and, on success, the same servers in the
\* same order.
C4_AnnotationNotFilter ==
    Handled =>
      LET other == list(ToggleNumMembers(request)).response
      IN /\ other.kind = response.kind
         /\ Ok => IdsOf(other.data) = IdsOf(response.data)

\* C5: with qty=q (q >= 0) and no by_serverid the response is the first
\* min(q, n) servers, in store order, of the n servers the category and
\* membership filters leave.
C5_FirstQty ==
    ( /\ Handled
      /\ PassesPrecheck
      /\ P_by_serverid = None
      /\ Truthy(P_qty)
      /\ ParseInt(P_qty).ok
      /\ ParseInt(P_qty).val >= 0 )
    => /\ Ok
       /\ IdsOf(response.data) = Take(Ordered(WorkingSet), ParseInt(P_qty).val)

OnlyCategory(c) ==
    request.query_params =
        [category |-> c, by_user |-> None, by_serverid |-> None,
         qty |-> None, with_num_members |-> None]

\* C6: for every server S of the store, the request with category = S's
\* category name and no other parameter returns S and no server of another
\* category name.
C6_CategoryExact ==
    \A s \in DOMAIN Server :
        (Handled /\ OnlyCategory(Server[s].category))
        => /\ Ok
           /\ \E i \in 1..Len(response.data) : response.data[i].id = s
           /\ \A i \in 1..Len(response.data) :
                 response.data[i].category = Server[s].category

C6_Witness ==
    /\ Handled
    /\ Ok
    /\ OnlyCategory(GameCap)
    /\ \E s, t \in DOMAIN Server :
          Server[s].category = GameCap /\ Server[t].category = Game
    /\ Len(response.data) = 1

\* C7: a step that handles a list() request leaves the servers, their
\* categories and the member edges as they were.
C7_ListOnlyReads ==
    [][(request = NoRequest /\ request' # NoRequest)
         => (Server' = Server /\ Member' = Member /\ nextId' = nextId)]_vars

C7_Witness ==
    /\ Handled
    /\ Authenticated
    /\ P_by_user = Str_true
    /\ P_with_num_members = Str_true
    /\ Ok
    /\ Len(response.data) = MaxServers
    /\ result_cache.fetched

NoParameters ==
    request.query_params =
        [category |-> None, by_user |-> None, by_serverid |-> None,
         qty |-> None, with_num_members |-> None]

\* C8: whatever requests came before, a request with no parameters returns
\* all the servers of the store.
C8_NoCarryOver ==
    (Handled /\ NoParameters)
    => (Ok /\ IdsOf(response.data) = Ordered(DOMAIN Server))

\* the working set after the qty truncation, when a qty is supplied
TruncatedWorkingSet ==
    IF Truthy(P_qty)
    THEN Take(Ordered(WorkingSet), ParseInt(P_qty).val)
    ELSE Ordered(WorkingSet)

\* C9: an authenticated request with by_serverid=<id>, <id> being in the
\* working set the preceding steps leave, succeeds with exactly the server
\* <id>; and a successful response to a request carrying by_serverid has
\* exactly one record.
C9_SingleServer ==
    /\ ( /\ Handled
         /\ Authenticated
         /\ Truthy(P_by_serverid)
         /\ ParseInt(P_by_serverid).ok
         /\ Truthy(P_qty) => (ParseInt(P_qty).ok /\ ParseInt(P_qty).val >= 0)
         /\ \E i \in 1..Len(TruncatedWorkingSet) :
               TruncatedWorkingSet[i] = ParseInt(P_by_serverid).val )
       => /\ Ok
          /\ IdsOf(response.data) = <<ParseInt(P_by_serverid).val>>
    /\ (Handled /\ Truthy(P_by_serverid) /\ Ok) => Len(response.data) = 1

====
